---------------------------- MODULE Spec2Model ----------------------------
(***************************************************************************)
(* A model of the Environment Agency flood-monitoring client               *)
(* (src/api_client.py, src/utils.py, src/cli.py, src/main.py).             *)
(*                                                                         *)
(* The client is a sequential program.  One call of a client method is     *)
(* modelled as a short run of steps: the step that enters the method, one  *)
(* step per HTTP request the method issues (the remote service answers     *)
(* each request nondeterministically), and the step that hands the result  *)
(* back.  Text (endpoints, URLs, formatted dates) is modelled as strings   *)
(* and built as the code builds it.                                        *)
(***************************************************************************)
EXTENDS Integers, Sequences, FiniteSets, TLC

VARIABLES
    pc,      \* position of the running call ("idle" between calls)
    args,    \* arguments of the running call
    http,    \* the GET requests issued by the running call, in order
    locals,  \* local variables of the running call
    ret      \* how the call ended: a returned value or a raised exception

vars == <<pc, args, http, locals, ret>>

(***************************************************************************)
(* Python values                                                           *)
(***************************************************************************)
\* An optional argument: None is the empty tuple, a present value x is <<x>>.
None == <<>>
Some(x) == <<x>>
IsNone(o) == o = <<>>

NoArgs == [op |-> "none"]
NoLocals == [at |-> "none"]
NoRet == [kind |-> "none"]
Returned(v) == [kind |-> "return", value |-> v]
Raised(e) == [kind |-> "raise", exc |-> e]

\* str.startswith
startswith(s, p) == Len(s) >= Len(p) /\ SubSeq(s, 1, Len(p)) = p

\* s[1:]
DropFirst(s) == SubSeq(s, 2, Len(s))

(***************************************************************************)
(* APIClient class attributes                                              *)
(***************************************************************************)
BASE_URL == "https://environment.data.gov.uk/flood-monitoring"
MEASURE_PARAMETER_NAMES == <<"level", "flow", "wind", "temperature">>

STATION_ENDPOINT(station_id) == "id/stations/?stationReference=" \o station_id
MEASURES_ENDPOINT(station_id) == "id/stations/" \o station_id \o "/measures"

(***************************************************************************)
(* The remote service.  A GET either fails in transport or is answered     *)
(* with a status code and a body; the body is no JSON at all, a JSON       *)
(* object without the "items" key, or the envelope {"items": payload}.     *)
(***************************************************************************)
StatusCodes == {200, 304, 404, 500}

NetFail == [net |-> "fail"]
Answer(status, body) == [net |-> "ok", status |-> status, body |-> body]
NotJson == [json |-> FALSE]
NoItems == [json |-> TRUE, has_items |-> FALSE]
Envelope(items) == [json |-> TRUE, has_items |-> TRUE, items |-> items]

\* Every answer the service can give to a request whose collection is one of payloads.
Responses(payloads) ==
    {NetFail} \cup
    { Answer(s, b) : s \in StatusCodes,
                     b \in {NotJson, NoItems} \cup { Envelope(p) : p \in payloads } }

(***************************************************************************)
(* APIClient.get_api_response                                              *)
(***************************************************************************)
\* Lines 41-50: the URL that is requested for an argument.
request_endpoint(endpoint_extension) ==
    LET ext == IF IsNone(endpoint_extension) THEN "id/stations"
               ELSE IF startswith(endpoint_extension[1], "/")
                    THEN DropFirst(endpoint_extension[1])
                    ELSE endpoint_extension[1]
    IN  IF ~startswith(ext, "http") THEN BASE_URL \o "/" \o ext ELSE ext

\* A variant that raises for every status outside 2xx.
raise_for_status_any_non_2xx(status) == status < 200 \/ status >= 300

\* requests.Response.raise_for_status: raises HTTPError for 4xx and 5xx only.
raise_for_status(status) == 400 <= status /\ status < 600

\* Lines 53-56: session.get, raise_for_status, response.json()["items"].
api_outcome(resp) ==
    IF resp.net = "fail" THEN Raised("ConnectionError")
    ELSE IF raise_for_status(resp.status)
         THEN [kind |-> "raise", exc |-> "HTTPError", status |-> resp.status]
    ELSE IF ~resp.body.json THEN Raised("JSONDecodeError")
    ELSE IF ~resp.body.has_items THEN Raised("KeyError")
    ELSE Returned(resp.body.items)

\* One GET as it is logged in http.
Get(endpoint_extension, resp) ==
    [url |-> request_endpoint(endpoint_extension), resp |-> resp]

(***************************************************************************)
(* Calls of get_api_response on its own.                                   *)
(***************************************************************************)
\* Arguments: the default, relative fragments with and without a leading
\* separator, absolute URLs, and relative fragments that start with "http".
FetchArgs ==
    { None,
      Some("id/stations"),
      Some("/id/stations/E2534/readings?since=2025-03-01T00:00:00Z"),
      Some("//id/stations"),
      Some(""),
      Some("http://environment.data.gov.uk/flood-monitoring/id/measures/E2534-flow"),
      Some("https://environment.data.gov.uk/flood-monitoring/id/stations"),
      Some("httpstations/E2534") }

FetchPayloads == { <<>>, <<"item1">>, <<"item1", "item2">> }

get_api_response_Call ==
    /\ pc = "idle"
    /\ \E e \in FetchArgs :
         args' = [op |-> "get_api_response", endpoint_extension |-> e]
    /\ pc' = "get_api_response:get"
    /\ http' = <<>>
    /\ locals' = NoLocals
    /\ ret' = NoRet

get_api_response_Get ==
    /\ pc = "get_api_response:get"
    /\ \E resp \in Responses(FetchPayloads) :
         /\ http' = Append(http, Get(args.endpoint_extension, resp))
         /\ ret' = api_outcome(resp)
    /\ pc' = "done"
    /\ UNCHANGED <<args, locals>>

\* The caller takes the result; the client keeps nothing from one call to the next.
Finish ==
    /\ pc = "done"
    /\ pc' = "idle"
    /\ args' = NoArgs
    /\ http' = <<>>
    /\ locals' = NoLocals
    /\ ret' = NoRet

Init ==
    /\ pc = "idle"
    /\ args = NoArgs
    /\ http = <<>>
    /\ locals = NoLocals
    /\ ret = NoRet

NextFetch == get_api_response_Call \/ get_api_response_Get \/ Finish

SpecFetch == Init /\ [][NextFetch]_vars


(***************************************************************************)
(* Station resolver: check_valid_station_id and station_name_to_ids        *)
(***************************************************************************)
MaxStations == 2

AssertionError(msg) == [kind |-> "raise", exc |-> "AssertionError", msg |-> msg]

\* Sequences over S of length at most n.
SeqUpTo(S, n) == UNION { [1..k -> S] : k \in 0..n }

\* Station records of the registry, as the stations endpoint lists them.
StationRecords ==
    { [label |-> "Bourton Dickler", stationReference |-> "1029TH"],
      [label |-> "Bourton Bridge", stationReference |-> "E2534"] }

StationPayloads == SeqUpTo(StationRecords, MaxStations)

StationIds == {"E2534", "nosuch"}

\* A variant that accepts every collection.
station_info_not_checked(station_info) == TRUE

\* Lines 63-65: the condition asserted by check_valid_station_id.
station_info_ok(station_info) == Len(station_info) > 0

\* Lines 58-65, given the outcome of the request.
check_valid_station_id(fetched) ==
    IF fetched.kind = "raise" THEN fetched
    ELSE IF ~station_info_ok(fetched.value)
         THEN AssertionError("Station id not found")
    ELSE Returned(None)

check_valid_station_id_Call ==
    /\ pc = "idle"
    /\ \E id \in StationIds :
         args' = [op |-> "check_valid_station_id", station_id |-> id]
    /\ pc' = "check_valid_station_id:get"
    /\ http' = <<>>
    /\ locals' = NoLocals
    /\ ret' = NoRet

check_valid_station_id_Get ==
    /\ pc = "check_valid_station_id:get"
    /\ \E resp \in Responses(StationPayloads) :
         /\ http' = Append(http, Get(Some(STATION_ENDPOINT(args.station_id)), resp))
         /\ ret' = check_valid_station_id(api_outcome(resp))
    /\ pc' = "done"
    /\ UNCHANGED <<args, locals>>

\* "+".join(station_name.split(" ")): every space becomes a "+".
RECURSIVE join_plus_split(_)
join_plus_split(name) ==
    IF name = "" THEN ""
    ELSE (IF SubSeq(name, 1, 1) = " " THEN "+" ELSE SubSeq(name, 1, 1))
         \o join_plus_split(DropFirst(name))

\* Line 116: names, ids = zip(*[(d["label"], d["stationReference"]) for d in data]).
\* zip(*[]) yields nothing, and unpacking nothing into two names raises ValueError.
unzip_stations(data) ==
    IF Len(data) = 0 THEN Raised("ValueError")
    ELSE Returned(<< [i \in 1..Len(data) |-> data[i].label],
                     [i \in 1..Len(data) |-> data[i].stationReference] >>)

\* Lines 107-118, given the outcome of the request.
station_name_to_ids(fetched) ==
    IF fetched.kind = "raise" THEN fetched ELSE unzip_stations(fetched.value)

StationNames == {"Bourton", "Bourton Dickler", "No Such Place"}

station_name_to_ids_Call ==
    /\ pc = "idle"
    /\ \E n \in StationNames :
         args' = [op |-> "station_name_to_ids", station_name |-> n]
    /\ pc' = "station_name_to_ids:get"
    /\ http' = <<>>
    /\ locals' = NoLocals
    /\ ret' = NoRet

station_name_to_ids_Get ==
    /\ pc = "station_name_to_ids:get"
    /\ \E resp \in Responses(StationPayloads) :
         /\ http' = Append(http,
                Get(Some("id/stations?search=" \o join_plus_split(args.station_name)), resp))
         /\ ret' = station_name_to_ids(api_outcome(resp))
    /\ pc' = "done"
    /\ UNCHANGED <<args, locals>>

NextStation ==
    \/ check_valid_station_id_Call
    \/ check_valid_station_id_Get
    \/ station_name_to_ids_Call
    \/ station_name_to_ids_Get
    \/ Finish

SpecStation == Init /\ [][NextStation]_vars

\* The request of the running call was answered with an items collection.
RequestSucceeded(i) == api_outcome(http[i].resp).kind = "return"
ItemsOf(i) == http[i].resp.body.items

\* C8: check_valid_station_id requests the station-by-id filter and raises the
\* station-not-found error exactly when that request succeeds with an empty
\* collection; when the collection is not empty it returns None.
C8_StationNotFoundIffEmpty ==
    (pc = "done" /\ args.op = "check_valid_station_id") =>
        /\ Len(http) = 1
        /\ http[1].url = BASE_URL \o "/id/stations/?stationReference=" \o args.station_id
        /\ (ret = AssertionError("Station id not found"))
             <=> (RequestSucceeded(1) /\ ItemsOf(1) = <<>>)
        /\ (RequestSucceeded(1) /\ ItemsOf(1) # <<>>) => ret = Returned(None)

C8_Witness ==
    /\ pc = "done"
    /\ args.op = "check_valid_station_id"
    /\ RequestSucceeded(1)
    /\ ItemsOf(1) = <<>>
    /\ ret = AssertionError("Station id not found")

\* C4: a name search that matches no station returns two empty sequences
\* (names, ids) and does not end in an error.
C4_NoMatchReturnsEmpty ==
    (/\ pc = "done"
     /\ args.op = "station_name_to_ids"
     /\ RequestSucceeded(1)
     /\ ItemsOf(1) = <<>>)
        => ret = Returned(<< <<>>, <<>> >>)

(***************************************************************************)
(* Measure catalog lookup: get_station_measures                            *)
(***************************************************************************)
MaxEntries == 2

\* The set of elements of a sequence.
Range(f) == { f[i] : i \in DOMAIN f }

\* The sequences that list every element of S once.
Orderings(S) == { f \in [1..Cardinality(S) -> S] : Range(f) = S }

\* The second components of a sequence of pairs.
Seconds(pairs) == [i \in DOMAIN pairs |-> pairs[i][2]]

\* The subsequence of s at the positions in I.
SubsequenceAt(s, I) ==
    Seconds(SelectSeq([i \in DOMAIN s |-> <<i, s[i]>>], LAMBDA e : e[1] \in I))

\* The measures collection of a station with every sensor installed, in the
\* order the service lists it.  latestReading is None when the key is missing
\* or its value is empty (both are falsy), and otherwise Some(e) with e the
\* value of latestReading.measure.
AllMeasureRecords ==
    << [parameter |-> "level", unitName |-> "mASD", qualifier |-> "Stage",
        latestReading |-> Some("http://environment.data.gov.uk/flood-monitoring/id/measures/E2534-level-stage")],
       [parameter |-> "level", unitName |-> "mASD", qualifier |-> "Downstream Stage",
        latestReading |-> Some("http://environment.data.gov.uk/flood-monitoring/id/measures/E2534-level-downstage")],
       [parameter |-> "flow", unitName |-> "m3/s", qualifier |-> "Logged",
        latestReading |-> Some("http://environment.data.gov.uk/flood-monitoring/id/measures/E2534-flow")],
       [parameter |-> "temperature", unitName |-> "deg C", qualifier |-> "Water",
        latestReading |-> None] >>

\* A station's measures collection lists at most MaxEntries of these entries.
\* (The order of the entries does not matter to the code, which builds sets.)
MeasurePayloads ==
    { SubsequenceAt(AllMeasureRecords, I) :
        I \in { J \in SUBSET DOMAIN AllMeasureRecords : Cardinality(J) <= MaxEntries } }

\* d.get("latestReading", False) as a condition.
has_latest_reading(d) == ~IsNone(d.latestReading)

ActiveEntries(data) == { d \in Range(data) : has_latest_reading(d) }

\* Lines 72-74 with the filter left out.
station_measures_set_unfiltered(data) == { d.parameter : d \in Range(data) }

\* Lines 72-74, 75-81, 82-84, 85-87: the four sets that are built.
station_measures_set(data) == { d.parameter : d \in ActiveEntries(data) }
station_measures_eps_set(data) == { d.latestReading[1] : d \in ActiveEntries(data) }
station_measues_unit_set(data) == { d.unitName : d \in ActiveEntries(data) }
station_measues_qualifiers_set(data) == { d.qualifier : d \in ActiveEntries(data) }

\* Lines 67-94.  list(set) lists a set in the order of the hash table, which
\* the string hashes of the run decide: every ordering of each set is possible,
\* and the four orderings are independent of one another.
get_station_measures(data) ==
    { <<m, e, u, q>> :
        m \in Orderings(station_measures_set(data)),
        e \in Orderings(station_measures_eps_set(data)),
        u \in Orderings(station_measues_unit_set(data)),
        q \in Orderings(station_measues_qualifiers_set(data)) }

get_station_measures_Call ==
    /\ pc = "idle"
    /\ \E id \in StationIds :
         args' = [op |-> "get_station_measures", station_id |-> id]
    /\ pc' = "get_station_measures:get"
    /\ http' = <<>>
    /\ locals' = NoLocals
    /\ ret' = NoRet

get_station_measures_Get ==
    /\ pc = "get_station_measures:get"
    /\ \E resp \in Responses(MeasurePayloads) :
         /\ http' = Append(http, Get(Some(MEASURES_ENDPOINT(args.station_id)), resp))
         /\ LET fetched == api_outcome(resp)
            IN  IF fetched.kind = "raise" THEN ret' = fetched
                ELSE \E lists \in get_station_measures(fetched.value) :
                        ret' = Returned(lists)
    /\ pc' = "done"
    /\ UNCHANGED <<args, locals>>

NextMeasures == get_station_measures_Call \/ get_station_measures_Get \/ Finish

SpecMeasures == Init /\ [][NextMeasures]_vars

MeasuresReturned ==
    /\ pc = "done"
    /\ args.op = "get_station_measures"
    /\ ret.kind = "return"

NoRepeats(f) == \A i, j \in DOMAIN f : i # j => f[i] # f[j]

\* C6: the four sequences of get_station_measures have the same length, and at
\* every index they hold the parameter, endpoint, unit and qualifier of one and
\* the same active entry.
C6_PositionalCorrespondence ==
    MeasuresReturned =>
        LET m == ret.value[1]
            e == ret.value[2]
            u == ret.value[3]
            q == ret.value[4]
        IN  /\ Len(m) = Len(e) /\ Len(m) = Len(u) /\ Len(m) = Len(q)
            /\ \A i \in DOMAIN m :
                 \E d \in ActiveEntries(ItemsOf(1)) :
                    /\ d.parameter = m[i]
                    /\ d.latestReading[1] = e[i]
                    /\ d.unitName = u[i]
                    /\ d.qualifier = q[i]

\* C7: only entries with a non-empty latestReading count.  Each of the four
\* sequences holds exactly the values of the active entries (nothing that only
\* a dormant entry carries, everything an active entry carries), each once.
C7_OnlyActiveEntriesOnce ==
    MeasuresReturned =>
        LET data == ItemsOf(1)
            active == { data[i] : i \in { j \in DOMAIN data : data[j].latestReading # <<>> } }
        IN  /\ Range(ret.value[1]) = { d.parameter : d \in active }
            /\ Range(ret.value[2]) = { d.latestReading[1] : d \in active }
            /\ Range(ret.value[3]) = { d.unitName : d \in active }
            /\ Range(ret.value[4]) = { d.qualifier : d \in active }
            /\ \A k \in 1..4 : NoRepeats(ret.value[k])

\* A dormant entry beside an active one: only the active one is listed.
C7_Witness ==
    /\ MeasuresReturned
    /\ \E d \in Range(ItemsOf(1)) : d.latestReading = <<>>
    /\ \E d \in Range(ItemsOf(1)) : d.latestReading # <<>>
    /\ Len(ret.value[1]) = 1

(***************************************************************************)
(* Time helpers (src/utils.py) and the endpoint builders                   *)
(***************************************************************************)
DATETIME_FORMAT == "%Y-%m-%dT%H:%M:%SZ"
DATE_FORMAT == "%Y-%m-%d"

DateTime(y, mo, d, h, mi, s) ==
    [year |-> y, month |-> mo, day |-> d, hour |-> h, minute |-> mi, second |-> s]

\* A two-digit field of strftime: padded with a zero.
Pad2(n) == IF n < 10 THEN "0" \o ToString(n) ELSE ToString(n)

\* One strftime directive.  %Y is the C library's year: glibc writes it
\* without padding, so a year below 1000 has fewer than four digits.
strftime_directive(dt, c) ==
    CASE c = "Y" -> ToString(dt.year)
      [] c = "m" -> Pad2(dt.month)
      [] c = "d" -> Pad2(dt.day)
      [] c = "H" -> Pad2(dt.hour)
      [] c = "M" -> Pad2(dt.minute)
      [] c = "S" -> Pad2(dt.second)
      [] OTHER -> "%" \o c

RECURSIVE strftime(_, _)
strftime(dt, format) ==
    IF format = "" THEN ""
    ELSE IF SubSeq(format, 1, 1) = "%" /\ Len(format) >= 2
         THEN strftime_directive(dt, SubSeq(format, 2, 2))
              \o strftime(dt, SubSeq(format, 3, Len(format)))
    ELSE SubSeq(format, 1, 1) \o strftime(dt, DropFirst(format))

\* A variant that writes the date-time form whatever the format asks for.
dt_to_str_always_datetime(dt, format) == strftime(dt, DATETIME_FORMAT)

\* utils.dt_to_str
dt_to_str(dt, format) == strftime(dt, format)

\* The class templates with their fields filled in.
DATE_FILTER_ENDPOINT(station_id, start_date, end_date) ==
    "/id/stations/" \o station_id \o "/readings?startdate=" \o start_date
        \o "&enddate=" \o end_date
DATE_SINCE_FILTER_ENDPOINT(station_id, start_date) ==
    "/id/stations/" \o station_id \o "/readings?since=" \o start_date
READINGS_SINCE_FILTER(start_date) == "/readings?since=" \o start_date
READINGS_DATE_FILTER(start_date, end_date) ==
    "/readings?startdate=" \o start_date \o "&enddate=" \o end_date

\* Lines 126-149.  start_end_date is <<start, end>> with end None or Some(dt).
create_date_filter_endpoint(station_id, start_end_date) ==
    LET start_date == start_end_date[1]
        end_date == start_end_date[2]
    IN  IF ~IsNone(end_date)
        THEN DATE_FILTER_ENDPOINT(station_id,
                                  dt_to_str(start_date, DATE_FORMAT),
                                  dt_to_str(end_date[1], DATE_FORMAT))
        ELSE DATE_SINCE_FILTER_ENDPOINT(station_id,
                                        dt_to_str(start_date, DATETIME_FORMAT))

\* Lines 151-172.
create_reading_date_filter_endpoint(start_end_date) ==
    LET start_date == start_end_date[1]
        end_date == start_end_date[2]
    IN  IF ~IsNone(end_date)
        THEN READINGS_DATE_FILTER(dt_to_str(start_date, DATE_FORMAT),
                                  dt_to_str(end_date[1], DATE_FORMAT))
        ELSE READINGS_SINCE_FILTER(dt_to_str(start_date, DATETIME_FORMAT))

\* Instants a window is made of: single- and double-digit fields, midnight,
\* the last second of a year, and a year of three digits.
Instants ==
    { DateTime(2025, 3, 1, 0, 0, 0),
      DateTime(2025, 11, 23, 14, 5, 9),
      DateTime(2024, 12, 31, 23, 59, 59),
      DateTime(987, 6, 5, 4, 3, 2) }

DateWindows == { <<s, e>> : s \in Instants, e \in {None} \cup { Some(i) : i \in Instants } }

\* The builders are pure: a call picks the arguments, and each builder is
\* applied to them once.
Builders_Call ==
    /\ pc = "idle"
    /\ \E id \in StationIds, w \in DateWindows :
         args' = [op |-> "builders", station_id |-> id, start_end_date |-> w]
    /\ pc' = "builders"
    /\ http' = <<>>
    /\ locals' = [by_station |-> None, by_reading |-> None]
    /\ ret' = NoRet

create_date_filter_endpoint_Apply ==
    /\ pc = "builders"
    /\ IsNone(locals.by_station)
    /\ locals' = [locals EXCEPT !.by_station =
                    Some(create_date_filter_endpoint(args.station_id, args.start_end_date))]
    /\ UNCHANGED <<pc, args, http, ret>>

create_reading_date_filter_endpoint_Apply ==
    /\ pc = "builders"
    /\ IsNone(locals.by_reading)
    /\ locals' = [locals EXCEPT !.by_reading =
                    Some(create_reading_date_filter_endpoint(args.start_end_date))]
    /\ UNCHANGED <<pc, args, http, ret>>

Builders_Return ==
    /\ pc = "builders"
    /\ ~IsNone(locals.by_station)
    /\ ~IsNone(locals.by_reading)
    /\ pc' = "done"
    /\ ret' = Returned(<<locals.by_station[1], locals.by_reading[1]>>)
    /\ UNCHANGED <<args, http, locals>>

NextBuilders ==
    \/ Builders_Call
    \/ create_date_filter_endpoint_Apply
    \/ create_reading_date_filter_endpoint_Apply
    \/ Builders_Return
    \/ Finish

SpecBuilders == Init /\ [][NextBuilders]_vars

\* The text that follows the first "readings?" of an endpoint.
RECURSIVE AfterReadingsMark(_)
AfterReadingsMark(s) ==
    IF Len(s) < 9 THEN ""
    ELSE IF SubSeq(s, 1, 9) = "readings?" THEN SubSeq(s, 10, Len(s))
    ELSE AfterReadingsMark(DropFirst(s))

\* Decimal digits written out, most significant first, in a fixed width.
Digit(n) == SubSeq("0123456789", n + 1, n + 1)
Digits2(n) == Digit((n \div 10) % 10) \o Digit(n % 10)
Digits4(n) == Digits2(n \div 100) \o Digits2(n % 100)
DateOnly(dt) == Digits4(dt.year) \o "-" \o Digits2(dt.month) \o "-" \o Digits2(dt.day)
DateTimeZ(dt) ==
    DateOnly(dt) \o "T" \o Digits2(dt.hour) \o ":" \o Digits2(dt.minute)
        \o ":" \o Digits2(dt.second) \o "Z"

\* The query text the claim asks for.
ExpectedQuery(w) ==
    IF IsNone(w[2]) THEN "since=" \o DateTimeZ(w[1])
    ELSE "startdate=" \o DateOnly(w[1]) \o "&enddate=" \o DateOnly(w[2][1])

BuildersDone == pc = "done" /\ args.op = "builders"

FourDigitYears(w) ==
    /\ w[1].year >= 1000
    /\ ~IsNone(w[2]) => w[2][1].year >= 1000

MaxReadings == 2

\* The value of a string of decimal digits.
DigitValue(c) == CHOOSE n \in 0..9 : SubSeq("0123456789", n + 1, n + 1) = c

RECURSIVE int(_)
int(s) == IF s = "" THEN 0
          ELSE 10 * int(SubSeq(s, 1, Len(s) - 1)) + DigitValue(SubSeq(s, Len(s), Len(s)))

\* The fields strptime reads from s under a format: <<directive, number>> pairs.
\* %Y reads four digits and every other directive two; other text is skipped.
RECURSIVE strptime_fields(_, _)
strptime_fields(s, format) ==
    IF format = "" THEN <<>>
    ELSE IF SubSeq(format, 1, 1) = "%"
         THEN LET c == SubSeq(format, 2, 2)
                  w == IF c = "Y" THEN 4 ELSE 2
              IN  << <<c, int(SubSeq(s, 1, w))>> >>
                  \o strptime_fields(SubSeq(s, w + 1, Len(s)), SubSeq(format, 3, Len(format)))
    ELSE strptime_fields(DropFirst(s), DropFirst(format))

\* The number read for directive c, or the default of the field.
FieldOf(fields, c, default) ==
    IF \E i \in DOMAIN fields : fields[i][1] = c
    THEN fields[CHOOSE i \in DOMAIN fields : fields[i][1] = c][2]
    ELSE default

\* utils.str_to_dt: datetime.strptime.
str_to_dt(dt_str, format) ==
    LET f == strptime_fields(dt_str, format)
    IN  DateTime(FieldOf(f, "Y", 1900), FieldOf(f, "m", 1), FieldOf(f, "d", 1),
                 FieldOf(f, "H", 0), FieldOf(f, "M", 0), FieldOf(f, "S", 0))

\* The order of datetimes.
DtBefore(a, b) ==
    LET ka == <<a.year, a.month, a.day, a.hour, a.minute, a.second>>
        kb == <<b.year, b.month, b.day, b.hour, b.minute, b.second>>
    IN  \E i \in 1..6 : ka[i] < kb[i] /\ \A j \in 1..(i - 1) : ka[j] = kb[j]

\* Reading entries on the wire.
WireReadings ==
    { [dateTime |-> "2025-03-01T00:00:00Z", value |-> 1],
      [dateTime |-> "2025-03-01T00:15:00Z", value |-> 2],
      [dateTime |-> "2025-03-01T00:30:00Z", value |-> 3],
      [dateTime |-> "2025-03-01T00:00:00Z", value |-> 4] }
ReadingPayloads == SeqUpTo(WireReadings, MaxReadings)

\* A DataFrame of one measure: its value column's name and its rows in order.
\* A row carries its index label (the position it had when the frame was
\* built, from 0), its Date and its value.
Frame(name, rows) == [name |-> name, rows |-> rows]

\* pd.DataFrame({"Date": dates, name: measurements}) with the default RangeIndex,
\* then pd.to_datetime, which leaves a datetime column as it is.
new_frame_rows(dates, measurements) ==
    [i \in 1..Len(dates) |-> [label |-> i - 1, Date |-> dates[i], value |-> measurements[i]]]

IsSortedByDate(rows) ==
    \A i, j \in DOMAIN rows : i < j => ~DtBefore(rows[j].Date, rows[i].Date)

\* A variant of sort_values that leaves the rows in the order they came.
sort_values_not_sorting(rows) == {rows}

\* df.sort_values(by="Date"): the rows reordered to ascend by Date, each
\* keeping its label.  The default sort kind is quicksort, which is not stable:
\* rows of equal Date may come in any order.
sort_values(rows) ==
    { [i \in DOMAIN rows |-> rows[p[i]]] :
        p \in { q \in Orderings(DOMAIN rows) :
                  IsSortedByDate([i \in DOMAIN rows |-> rows[q[i]]]) } }

\* Lines 275-286: the frames create_measurement_df can return.
create_measurement_df(dates, measurements, measurement_name) ==
    { Frame(measurement_name, r) : r \in sort_values(new_frame_rows(dates, measurements)) }

\* Lines 260-273.  zip(*[]) yields nothing: unpacking it into dates, values
\* raises ValueError when data is empty.  The result is the set of outcomes.
post_process_station_measurement_data(data, measurement_name) ==
    IF Len(data) = 0 THEN { Raised("ValueError") }
    ELSE LET dates == [i \in DOMAIN data |-> str_to_dt(data[i].dateTime, DATETIME_FORMAT)]
             values == [i \in DOMAIN data |-> data[i].value]
         IN  { Returned(df) : df \in create_measurement_df(dates, values, measurement_name) }

(***************************************************************************)
(* pd.concat(dfs, axis=1)                                                  *)
(***************************************************************************)
Labels(df) == [i \in DOMAIN df.rows |-> df.rows[i].label]

\* The union of the frames' indexes, unsorted: the labels of the first frame
\* in its order, then the labels of each later frame that are new.
RECURSIVE union_indexes(_)
union_indexes(dfs) ==
    IF Len(dfs) = 0 THEN <<>>
    ELSE LET before == union_indexes(SubSeq(dfs, 1, Len(dfs) - 1))
             last == Labels(dfs[Len(dfs)])
         IN  before \o SelectSeq(last, LAMBDA l : l \notin Range(before))

\* The two cells a frame contributes to the row of a label: its Date and its
\* value there, or two missing cells when the frame has no row of that label.
CellsAt(df, l) ==
    IF \E i \in DOMAIN df.rows : df.rows[i].label = l
    THEN LET r == df.rows[CHOOSE i \in DOMAIN df.rows : df.rows[i].label = l]
         IN  <<Some(r.Date), Some(r.value)>>
    ELSE <<None, None>>

RECURSIVE Flatten(_)
Flatten(ss) == IF Len(ss) = 0 THEN <<>> ELSE Head(ss) \o Flatten(Tail(ss))

\* Line 249: the frames side by side, aligned on the index labels (outer join
\* of the indexes).  No frames at all is a ValueError.
concat_axis1(dfs) ==
    IF Len(dfs) = 0 THEN Raised("ValueError")
    ELSE Returned(
           [columns |-> Flatten([k \in DOMAIN dfs |-> <<"Date", dfs[k].name>>]),
            rows |-> LET index == union_indexes(dfs)
                     IN  [i \in DOMAIN index |->
                            [label |-> index[i],
                             cells |-> Flatten([k \in DOMAIN dfs |-> CellsAt(dfs[k], index[i])])]]])

(***************************************************************************)
(* APIClient.get_station_readings                                          *)
(*                                                                         *)
(* The call runs through its lines one request at a time.  http logs, for  *)
(* each request, its URL and whether it was answered with a collection;    *)
(* locals holds the collections themselves.  Within one call the station's *)
(* measures collection and the order in which sets are listed do not       *)
(* change: the second measures request is answered with the same           *)
(* collection as the first, or fails.                                      *)
(***************************************************************************)
Min(a, b) == IF a < b THEN a ELSE b

\* One request as get_station_readings logs it: the URL, whether it was
\* answered with a collection, and whether that collection was empty.
Logged(endpoint_extension, fetched) ==
    [url |-> request_endpoint(Some(endpoint_extension)),
     ok |-> fetched.kind = "return",
     empty |-> IF fetched.kind = "return" THEN Some(fetched.value = <<>>) ELSE None]

\* A variant that lets every name pass.
is_valid_measure_any(measure_name) == TRUE

\* Lines 122-124: membership in the fixed enum.
is_valid_measure(measure_name) == measure_name \in Range(MEASURE_PARAMETER_NAMES)

\* [x for (x, m) in zip(xs, station_measures) if m == measure_name]
select_for_measure(xs, station_measures, measure_name) ==
    LET n == Min(Len(xs), Len(station_measures))
        keep == { i \in 1..n : station_measures[i] = measure_name }
    IN  SelectSeq([i \in 1..n |-> <<i, xs[i]>>], LAMBDA e : e[1] \in keep)

\* Arguments of the calls: measure_name absent, recorded by stations, valid
\* but dormant, and outside the enum; a since-window and a closed window.
MeasureArgs == {None, Some("flow"), Some("level"), Some("temperature"), Some("rainfall")}
ReadingWindows ==
    { <<DateTime(2025, 3, 1, 0, 0, 0), None>>,
      <<DateTime(2025, 3, 1, 0, 0, 0), Some(DateTime(2025, 11, 23, 14, 5, 9))>> }

ReadingStationIds == {"E2534"}

ReadingLocals ==
    [catalog |-> None, measure_names |-> <<>>, endpoints |-> <<>>, units |-> <<>>,
     qualifiers |-> <<>>, data |-> <<>>, dfs |-> <<>>]

\* Lines 174-183: a call with its measure_name among measure_args.
EnterReadings(measure_args) ==
    /\ pc = "idle"
    /\ \E id \in ReadingStationIds, w \in ReadingWindows, m \in measure_args :
         args' = [op |-> "get_station_readings", station_id |-> id,
                  start_end_date |-> w, measure_name |-> m]
    /\ pc' = "gsr:check_is_valid_measure"
    /\ http' = <<>>
    /\ locals' = ReadingLocals
    /\ ret' = NoRet

get_station_readings_Call == EnterReadings(MeasureArgs)

\* A call that names its measure.
get_station_readings_named_Call == EnterReadings(MeasureArgs \ {None})

\* Lines 185-186.
gsr_check_is_valid_measure ==
    /\ pc = "gsr:check_is_valid_measure"
    /\ IF ~IsNone(args.measure_name) /\ ~is_valid_measure(args.measure_name[1])
       THEN pc' = "done" /\ ret' = AssertionError("Measure is not valid")
       ELSE pc' = "gsr:check_valid_station_id" /\ ret' = ret
    /\ UNCHANGED <<args, http, locals>>

\* Line 189, with the station collections the service may answer with.
gsr_check_valid_station_id_in(station_payloads) ==
    /\ pc = "gsr:check_valid_station_id"
    /\ \E resp \in Responses(station_payloads) :
         LET fetched == api_outcome(resp)
             checked == check_valid_station_id(fetched)
         IN  /\ http' = Append(http, Logged(STATION_ENDPOINT(args.station_id), fetched))
             /\ IF checked.kind = "raise"
                THEN pc' = "done" /\ ret' = checked
                ELSE /\ pc' = IF IsNone(args.measure_name)
                              THEN "gsr:get_station_measures"
                              ELSE "gsr:check_station_measure"
                     /\ ret' = ret
    /\ UNCHANGED <<args, locals>>

gsr_check_valid_station_id == gsr_check_valid_station_id_in(StationPayloads)

\* Lines 192-193 (check_station_measure, lines 100-105), with the measures
\* collections the service may answer with.
gsr_check_station_measure_in(measure_payloads) ==
    /\ pc = "gsr:check_station_measure"
    /\ \E resp \in Responses(measure_payloads) :
         LET fetched == api_outcome(resp)
         IN  /\ http' = Append(http, Logged(MEASURES_ENDPOINT(args.station_id), fetched))
             /\ IF fetched.kind = "raise"
                THEN pc' = "done" /\ ret' = fetched /\ locals' = locals
                ELSE \E lists \in get_station_measures(fetched.value) :
                       IF args.measure_name[1] \in Range(lists[1])
                       THEN /\ pc' = "gsr:get_station_measures"
                            /\ ret' = ret
                            /\ locals' = [locals EXCEPT !.catalog =
                                   Some([data |-> fetched.value, lists |-> lists])]
                       ELSE /\ pc' = "done"
                            /\ ret' = AssertionError("Station does not measure")
                            /\ locals' = locals
    /\ UNCHANGED args

gsr_check_station_measure == gsr_check_station_measure_in(MeasurePayloads)

\* Lines 196-237, given the four lists of get_station_measures.
selected_measures(lists, measure_name, start_end_date) ==
    LET reading_date_filter == create_reading_date_filter_endpoint(start_end_date)
        eps == IF IsNone(measure_name) THEN lists[2]
               ELSE Seconds(select_for_measure(lists[2], lists[1], measure_name[1]))
    IN  [measure_names |-> IF IsNone(measure_name) THEN lists[1] ELSE <<measure_name[1]>>,
         endpoints |-> [i \in DOMAIN eps |-> eps[i] \o reading_date_filter],
         units |-> IF IsNone(measure_name) THEN lists[3]
                   ELSE Seconds(select_for_measure(lists[3], lists[1], measure_name[1])),
         qualifiers |-> IF IsNone(measure_name) THEN lists[4]
                        ELSE Seconds(select_for_measure(lists[4], lists[1], measure_name[1]))]

\* A variant of the loop that stops after its first turn.
FetchCount_at_most_one(l) == Min(1, Min(Len(l.measure_names), Len(l.endpoints)))

\* The number of turns of the loop of line 240: zip stops at the shorter list.
FetchCount(l) == Min(Len(l.measure_names), Len(l.endpoints))

\* Lines 196-237, with the measures collections the service may answer with.
gsr_get_station_measures_in(measure_payloads) ==
    /\ pc = "gsr:get_station_measures"
    /\ \E resp \in Responses(IF IsNone(locals.catalog) THEN measure_payloads
                            ELSE {locals.catalog[1].data}) :
         LET fetched == api_outcome(resp)
         IN  /\ http' = Append(http, Logged(MEASURES_ENDPOINT(args.station_id), fetched))
             /\ IF fetched.kind = "raise"
                THEN pc' = "done" /\ ret' = fetched /\ locals' = locals
                ELSE \E lists \in (IF IsNone(locals.catalog)
                                  THEN get_station_measures(fetched.value)
                                  ELSE {locals.catalog[1].lists}) :
                       LET sel == selected_measures(lists, args.measure_name,
                                                    args.start_end_date)
                       IN  /\ locals' = [locals EXCEPT
                                  !.catalog = Some([data |-> fetched.value, lists |-> lists]),
                                  !.measure_names = sel.measure_names,
                                  !.endpoints = sel.endpoints,
                                  !.units = sel.units,
                                  !.qualifiers = sel.qualifiers]
                           /\ pc' = IF FetchCount(sel) > 0 THEN "gsr:fetch" ELSE "gsr:concat"
                           /\ ret' = ret
    /\ UNCHANGED args

gsr_get_station_measures == gsr_get_station_measures_in(MeasurePayloads)

\* Lines 240-242: one turn of the loop, with the reading collections the
\* service may answer with.
gsr_fetch_in(reading_payloads) ==
    /\ pc = "gsr:fetch"
    /\ LET k == Len(locals.dfs) + 1
       IN  \E resp \in Responses(reading_payloads) :
             LET fetched == api_outcome(resp)
             IN  /\ http' = Append(http, Logged(locals.endpoints[k], fetched))
                 /\ IF fetched.kind = "raise"
                    THEN pc' = "done" /\ ret' = fetched /\ locals' = locals
                    ELSE \E df \in post_process_station_measurement_data(
                                       fetched.value, locals.measure_names[k]) :
                           IF df.kind = "raise"
                           THEN /\ pc' = "done"
                                /\ ret' = df
                                /\ locals' = [locals EXCEPT
                                       !.data = Append(@, fetched.value)]
                           ELSE /\ locals' = [locals EXCEPT
                                       !.data = Append(@, fetched.value),
                                       !.dfs = Append(@, df.value)]
                                /\ pc' = IF k < FetchCount(locals)
                                         THEN "gsr:fetch" ELSE "gsr:concat"
                                /\ ret' = ret
    /\ UNCHANGED args

gsr_fetch == gsr_fetch_in(ReadingPayloads)

\* Lines 244-247: the dict built from zip(measure_names, qualifiers, units);
\* a later item replaces an earlier one of the same name.
measurement_info(measure_names, qualifiers, units) ==
    LET n == Min(Len(measure_names), Min(Len(qualifiers), Len(units)))
        last(m) == CHOOSE i \in 1..n :
                      measure_names[i] = m /\ \A j \in (i + 1)..n : measure_names[j] # m
    IN  [m \in { measure_names[i] : i \in 1..n } |->
            [qualifier |-> qualifiers[last(m)], unit |-> units[last(m)]]]

\* Lines 244-249.
gsr_concat ==
    /\ pc = "gsr:concat"
    /\ LET table == concat_axis1(locals.dfs)
       IN  ret' = IF table.kind = "raise" THEN table
                  ELSE Returned(<<table.value,
                                  measurement_info(locals.measure_names,
                                                   locals.qualifiers, locals.units)>>)
    /\ pc' = "done"
    /\ UNCHANGED <<args, http, locals>>

NextReadings ==
    \/ get_station_readings_Call
    \/ gsr_check_is_valid_measure
    \/ gsr_check_valid_station_id
    \/ gsr_check_station_measure
    \/ gsr_get_station_measures
    \/ gsr_fetch
    \/ gsr_concat
    \/ Finish

SpecReadings == Init /\ [][NextReadings]_vars

\* The calls of get_station_readings that name a measure.
NextNamedReadings ==
    \/ get_station_readings_named_Call
    \/ gsr_check_is_valid_measure
    \/ gsr_check_valid_station_id
    \/ gsr_check_station_measure
    \/ gsr_get_station_measures
    \/ gsr_fetch
    \/ gsr_concat
    \/ Finish

SpecNamedReadings == Init /\ [][NextNamedReadings]_vars

(***************************************************************************)
(* Properties of get_station_readings                                      *)
(***************************************************************************)
ReadingsDone == pc = "done" /\ args.op = "get_station_readings"
ReadingsReturned == ReadingsDone /\ ret.kind = "return"

\* The timestamps of a raw reading collection.
WireDates(data) == [i \in DOMAIN data |-> str_to_dt(data[i].dateTime, DATETIME_FORMAT)]

\* The Date cell and the value cell that column pair k has in a row.
DateCell(row, k) == row.cells[2 * k - 1]
ValueCell(row, k) == row.cells[2 * k]

\* The timestamps a row shows, over all its Date cells.
RowDates(row, n) == { DateCell(row, k)[1] : k \in { j \in 1..n : DateCell(row, j) # None } }

\* C1: without a measure name, for a station with two or more active measures,
\* the combined table has exactly one row per distinct timestamp of the fetched
\* readings, in ascending order of timestamp, and in the column of each fetched
\* measure the value reported at the row's timestamp, or a missing cell when
\* that measure reported nothing at that timestamp.
C1_OuterJoinOnTimestamp ==
    (/\ ReadingsReturned
     /\ IsNone(args.measure_name)
     /\ Len(locals.data) >= 2)
        => LET rows == ret.value[1].rows
               n == Len(locals.data)
               times == UNION { Range(WireDates(locals.data[k])) : k \in 1..n }
           IN  /\ Len(rows) = Cardinality(times)
               /\ \A i \in DOMAIN rows : Cardinality(RowDates(rows[i], n)) = 1
               /\ \A i, j \in DOMAIN rows :
                    i < j => \E a \in RowDates(rows[i], n), b \in RowDates(rows[j], n) :
                                DtBefore(a, b)
               /\ \A i \in DOMAIN rows : \A k \in 1..n :
                    LET reported == { d.value : d \in { e \in Range(locals.data[k]) :
                                        str_to_dt(e.dateTime, DATETIME_FORMAT)
                                            \in RowDates(rows[i], n) } }
                    IN  IF reported = {} THEN ValueCell(rows[i], k) = None
                        ELSE /\ ValueCell(rows[i], k) # None
                             /\ ValueCell(rows[i], k)[1] \in reported

SingleMeasureReturned == ReadingsReturned /\ ~IsNone(args.measure_name)

\* C2 as stated: with a measure name m the table has the one data column m,
\* and its timestamps strictly increase from row to row, whatever order and
\* multiplicity the readings had on the wire.
C2_StrictlyIncreasing ==
    SingleMeasureReturned =>
        LET table == ret.value[1]
        IN  /\ table.columns = <<"Date", args.measure_name[1]>>
            /\ \A i \in 1..(Len(table.rows) - 1) :
                 DtBefore(DateCell(table.rows[i], 1)[1], DateCell(table.rows[i + 1], 1)[1])

\* C2 as amended: with a measure name m the table has the one data column m
\* and one row for every reading on the wire; its timestamps never decrease
\* from row to row, whatever the order on the wire, and they strictly increase
\* when no timestamp occurs twice on the wire.
C2_NonDecreasing ==
    SingleMeasureReturned =>
        LET table == ret.value[1]
            wire == WireDates(locals.data[1])
        IN  /\ table.columns = <<"Date", args.measure_name[1]>>
            /\ Len(locals.data) = 1
            /\ Len(table.rows) = Len(wire)
            /\ Len(wire) >= 1
            /\ \A i \in DOMAIN table.rows :
                 DateCell(table.rows[i], 1) # None /\ ValueCell(table.rows[i], 1) # None
            /\ \A i \in 1..(Len(table.rows) - 1) :
                 ~DtBefore(DateCell(table.rows[i + 1], 1)[1], DateCell(table.rows[i], 1)[1])
            /\ NoRepeats(wire) =>
                 \A i \in 1..(Len(table.rows) - 1) :
                    DtBefore(DateCell(table.rows[i], 1)[1], DateCell(table.rows[i + 1], 1)[1])

\* Readings that arrive latest first come out earliest first.
C2_Witness ==
    /\ SingleMeasureReturned
    /\ Len(locals.data[1]) = 2
    /\ DtBefore(WireDates(locals.data[1])[2], WireDates(locals.data[1])[1])
    /\ DtBefore(DateCell(ret.value[1].rows[1], 1)[1], DateCell(ret.value[1].rows[2], 1)[1])

\* C3: when the readings request of a selected measure is answered with an
\* empty collection, the call does not end in the unpacking fault (ValueError).
C3_EmptyReadingsNoUnpackFault ==
    (/\ ReadingsDone
     /\ \E k \in DOMAIN locals.data : locals.data[k] = <<>>)
        => ret # Raised("ValueError")

(***************************************************************************)
(* Properties of get_api_response                                          *)
(***************************************************************************)
FetchDone == pc = "done" /\ args.op = "get_api_response"

\* A fully-qualified URL names its scheme.
IsAbsoluteUrl(s) == startswith(s, "http://") \/ startswith(s, "https://")

\* C9: the fetch primitive requests the argument unchanged when it is a
\* fully-qualified URL, and otherwise the base URL, one "/", and the argument
\* without its leading path separator (the station list when no argument is
\* given); a relative fragment is never requested without the base URL.
C9_RequestedUrl ==
    FetchDone =>
        LET e == args.endpoint_extension
            url == http[1].url
        IN  IF IsNone(e) THEN url = BASE_URL \o "/id/stations"
            ELSE IF IsAbsoluteUrl(e[1]) THEN url = e[1]
            ELSE url = BASE_URL \o "/" \o
                       (IF startswith(e[1], "/") THEN DropFirst(e[1]) ELSE e[1])

Reverse(s) == [i \in DOMAIN s |-> s[Len(s) + 1 - i]]

NormaliseNames == {"level", "flow"}

Normalise_Call ==
    /\ pc = "idle"
    /\ \E d \in ReadingPayloads, n \in NormaliseNames :
         args' = [op |-> "normalise", data |-> d, measurement_name |-> n]
    /\ pc' = "normalise"
    /\ http' = <<>>
    /\ locals' = [forward |-> None, reverse |-> None]
    /\ ret' = NoRet

post_process_forward_Apply ==
    /\ pc = "normalise"
    /\ IsNone(locals.forward)
    /\ \E r \in post_process_station_measurement_data(args.data, args.measurement_name) :
         locals' = [locals EXCEPT !.forward = Some(r)]
    /\ UNCHANGED <<pc, args, http, ret>>

post_process_reverse_Apply ==
    /\ pc = "normalise"
    /\ IsNone(locals.reverse)
    /\ \E r \in post_process_station_measurement_data(Reverse(args.data),
                                                      args.measurement_name) :
         locals' = [locals EXCEPT !.reverse = Some(r)]
    /\ UNCHANGED <<pc, args, http, ret>>

Normalise_Return ==
    /\ pc = "normalise"
    /\ ~IsNone(locals.forward)
    /\ ~IsNone(locals.reverse)
    /\ pc' = "done"
    /\ ret' = Returned(<<locals.forward[1], locals.reverse[1]>>)
    /\ UNCHANGED <<args, http, locals>>

NextNormalise ==
    \/ Normalise_Call
    \/ post_process_forward_Apply
    \/ post_process_reverse_Apply
    \/ Normalise_Return
    \/ Finish

SpecNormalise == Init /\ [][NextNormalise]_vars

NormaliseDone == pc = "done" /\ args.op = "normalise"

\* The reading a row of a frame was made from: the one at the row's label.
SourceOf(data, row) == data[row.label + 1]

\* C13: normalising a raw collection that is not empty yields a table whose
\* value column is named by the measure, whose rows are exactly the readings
\* of the collection (each reading once), in ascending order of timestamp,
\* readings of equal timestamp in the order they had in the collection.
C13_StableSortedSameReadings ==
    (NormaliseDone /\ Len(args.data) >= 1) =>
        LET out == ret.value[1]
            rows == out.value.rows
        IN  /\ out.kind = "return"
            /\ out.value.name = args.measurement_name
            /\ Len(rows) = Len(args.data)
            /\ { rows[i].label : i \in DOMAIN rows } = 0..(Len(args.data) - 1)
            /\ \A i \in DOMAIN rows :
                 /\ rows[i].Date = str_to_dt(SourceOf(args.data, rows[i]).dateTime,
                                             DATETIME_FORMAT)
                 /\ rows[i].value = SourceOf(args.data, rows[i]).value
            /\ IsSortedByDate(rows)
            /\ \A i, j \in DOMAIN rows :
                 (i < j /\ rows[i].Date = rows[j].Date) => rows[i].label < rows[j].label

\* C14: for a collection whose timestamps are all different, normalising it
\* as it is and normalising it in reverse wire order yield the same table:
\* the same rows in the same order with the same row labels.
C14_WireOrderIndependent ==
    (NormaliseDone /\ Len(args.data) >= 1 /\ NoRepeats(WireDates(args.data))) =>
        ret.value[1] = ret.value[2]


(***************************************************************************)
(* Order of validation and requests in get_station_readings                *)
(***************************************************************************)
\* The fixed enum of measure names.
KnownMeasures == {"level", "flow", "wind", "temperature"}

StationCheckUrl(station_id) == request_endpoint(Some(STATION_ENDPOINT(station_id)))
MeasuresUrl(station_id) == request_endpoint(Some(MEASURES_ENDPOINT(station_id)))

\* The URL of a readings collection: it holds the text "/readings?".
IsReadingsUrl(url) ==
    \E k \in 1..(Len(url) - 9) : SubSeq(url, k, k + 9) = "/readings?"

\* The requests of the log that go to a readings endpoint.
ReadingsRequests == { i \in DOMAIN http : IsReadingsUrl(http[i].url) }

InReadingsCall == args.op = "get_station_readings"
Named == ~IsNone(args.measure_name)

\* C15: in get_station_readings a readings endpoint is requested only after
\* the measure name (if given) was found in the enum, the station check was
\* answered with a non-empty collection and (if a name is given) the station's
\* measures were fetched and contain the name.  A failing validation ends the
\* call with its own error and without a further request; a name outside the
\* enum fails before any request is issued.
C15_ValidationBeforeReadings ==
    InReadingsCall =>
        /\ \A i \in ReadingsRequests :
             /\ Named => args.measure_name[1] \in KnownMeasures
             /\ i > 1
             /\ http[1].url = StationCheckUrl(args.station_id)
             /\ http[1].empty = Some(FALSE)
             /\ Named =>
                  /\ i > 2
                  /\ http[2].url = MeasuresUrl(args.station_id)
                  /\ http[2].ok
                  /\ ~IsNone(locals.catalog)
                  /\ \E d \in Range(locals.catalog[1].data) :
                       has_latest_reading(d) /\ d.parameter = args.measure_name[1]
        /\ (Named /\ args.measure_name[1] \notin KnownMeasures) =>
             /\ http = <<>>
             /\ pc = "done" => ret = AssertionError("Measure is not valid")
        /\ (pc = "done" /\ Len(http) >= 1 /\ http[1].empty = Some(TRUE)) =>
             /\ ret = AssertionError("Station id not found")
             /\ Len(http) = 1
        /\ (pc = "done" /\ ret = AssertionError("Measure is not valid")) => http = <<>>
        /\ (pc = "done" /\ ret = AssertionError("Station id not found")) =>
             Len(http) = 1 /\ http[1].empty = Some(TRUE)
        /\ (pc = "done" /\ ret = AssertionError("Station does not measure")) =>
             Len(http) = 2 /\ http[2].ok /\ ReadingsRequests = {}

\* A call that names flow passes the three validations and requests the
\* readings in its fourth request.
C15_Witness ==
    /\ ReadingsDone
    /\ args.measure_name = Some("flow")
    /\ ret.kind = "return"
    /\ ReadingsRequests = {4}


(***************************************************************************)
(* The fetch loop of get_station_readings                                  *)
(***************************************************************************)
\* A readings request failed: it was not answered with a collection, or the
\* collection was empty and could not be normalised.
ReadingsRequestFailed(i) == ~http[i].ok \/ http[i].empty = Some(TRUE)

C16_State ==
    InReadingsCall =>
        LET n == Cardinality(ReadingsRequests)
        IN  \* the readings requests are the last n of the log, in the order of
            \* the selected endpoints
            /\ ReadingsRequests = (Len(http) - n + 1)..Len(http)
            /\ n <= Len(locals.endpoints)
            /\ \A j \in 1..n :
                 http[Len(http) - n + j].url = request_endpoint(Some(locals.endpoints[j]))
            \* a failed request is the last one, and the call has ended in an error
            /\ \A i \in ReadingsRequests :
                 ReadingsRequestFailed(i) =>
                    /\ i = Len(http)
                    /\ pc = "done"
                    /\ ret.kind = "raise"
            \* a table is returned only with every selected measure fetched
            /\ (pc = "done" /\ ret.kind = "return") =>
                 /\ n = Len(locals.measure_names)
                 /\ Len(locals.dfs) = n
                 /\ ret.value[1].columns =
                      Flatten([k \in 1..n |-> <<"Date", locals.measure_names[k]>>])
                 /\ DOMAIN ret.value[2] = Range(locals.measure_names)

\* C16: get_station_readings requests the readings of the selected measures
\* one at a time, in the order of the selected endpoints, no step issuing more
\* than one request; when the request or the normalisation of a measure fails,
\* no later measure is requested and the call ends in an error, without a table
\* and without measurement info; a table is returned only when every selected
\* measure was fetched, and then it has a column for each.
C16_SequentialAllOrNothing ==
    /\ []C16_State
    /\ [][Len(http') <= Len(http) + 1]_vars

\* The first of two selected measures fails: one readings request, no table.
C16_Witness ==
    /\ ReadingsDone
    /\ Len(locals.measure_names) = 2
    /\ Len(locals.endpoints) = 2
    /\ Cardinality(ReadingsRequests) = 1
    /\ ~http[Len(http)].ok
    /\ ret.kind = "raise"


(***************************************************************************)
(* The selection of a named measure in get_station_readings                *)
(***************************************************************************)
\* The active entries of the fetched catalog whose parameter is m.
EntriesOf(m) == { d \in ActiveEntries(locals.catalog[1].data) : d.parameter = m }

\* The named call has passed its validations and selected its lists.
NamedSelectionDone ==
    /\ ReadingsDone
    /\ Named
    /\ Len(http) >= 3
    /\ http[3].ok

\* C18: a call that names measure m, for a station that records m, requests
\* exactly one readings endpoint, the latestReading.measure endpoint of an
\* active entry of parameter m followed by the date filter; and when it
\* returns, its measurement info maps m to the unit and the qualifier of
\* entries of parameter m.
C18_NamedMeasureOwnEntry ==
    NamedSelectionDone =>
        LET m == args.measure_name[1]
            date_filter == create_reading_date_filter_endpoint(args.start_end_date)
        IN  /\ Cardinality(ReadingsRequests) = 1
            /\ \E d \in EntriesOf(m) :
                 http[Len(http)].url = request_endpoint(Some(d.latestReading[1] \o date_filter))
            /\ ret.kind = "return" =>
                 /\ m \in DOMAIN ret.value[2]
                 /\ \E d \in EntriesOf(m) : ret.value[2][m].unit = d.unitName
                 /\ \E d \in EntriesOf(m) : ret.value[2][m].qualifier = d.qualifier


(***************************************************************************)
(* cli.py: the tables of _fetch_station_readings                           *)
(*                                                                         *)
(* A table is the record get_station_readings returns: its column labels   *)
(* in order and its rows, each with an index label and one cell per        *)
(* column (None for a missing cell).                                       *)
(***************************************************************************)
MAX_PRINT_ROWS == 30

LowerCase == "abcdefghijklmnopqrstuvwxyz"
UpperCase == "ABCDEFGHIJKLMNOPQRSTUVWXYZ"

\* The position of character c in alphabet a, or 0.
IndexIn(a, c) ==
    IF \E k \in 1..Len(a) : SubSeq(a, k, k) = c
    THEN CHOOSE k \in 1..Len(a) : SubSeq(a, k, k) = c
    ELSE 0

upper(c) == IF IndexIn(LowerCase, c) = 0 THEN c
            ELSE SubSeq(UpperCase, IndexIn(LowerCase, c), IndexIn(LowerCase, c))
lower(c) == IF IndexIn(UpperCase, c) = 0 THEN c
            ELSE SubSeq(LowerCase, IndexIn(UpperCase, c), IndexIn(UpperCase, c))

\* str.title: a letter that follows a letter is lower-cased, any other letter
\* is upper-cased.
RECURSIVE title_from(_, _)
title_from(s, after_letter) ==
    IF s = "" THEN ""
    ELSE LET c == SubSeq(s, 1, 1)
             is_letter == IndexIn(LowerCase, c) # 0 \/ IndexIn(UpperCase, c) # 0
         IN  (IF after_letter THEN lower(c) ELSE upper(c))
                 \o title_from(DropFirst(s), is_letter)

title(s) == title_from(s, FALSE)

\* readings_df.empty: no rows or no columns.
df_empty(df) == Len(df.rows) = 0 \/ Len(df.columns) = 0

ColumnPositions(df, name) == { k \in DOMAIN df.columns : df.columns[k] = name }

\* Lines 146-150: the new label of every column but Date.  A column that the
\* measurement info does not hold is a KeyError.
prefixed_columns(station_name, df, info) ==
    LET cols == { c \in Range(df.columns) : c # "Date" }
    IN  IF \E c \in cols : c \notin DOMAIN info THEN Raised("KeyError")
        ELSE Returned([c \in cols |->
                 station_name \o "\n" \o title(c) \o " (" \o info[c].qualifier
                     \o ", " \o info[c].unit \o ")"])

\* Line 151: DataFrame.rename(columns=mapping).
rename(df, mapping) ==
    [df EXCEPT !.columns = [k \in DOMAIN df.columns |->
        IF df.columns[k] \in DOMAIN mapping THEN mapping[df.columns[k]]
        ELSE df.columns[k]]]

\* Lines 158-163: the measurement info under the new labels.  A measure of
\* the info that is no column of the table is a KeyError.
prefixed_info(mapping, info) ==
    IF \E c \in DOMAIN info : c \notin DOMAIN mapping THEN Raised("KeyError")
    ELSE Returned([l \in { mapping[c] : c \in DOMAIN info } |->
                      info[CHOOSE c \in DOMAIN info : mapping[c] = l]])

\* A column label that may be used as a key: it names exactly one column.
\* (pandas raises ValueError "The column label 'Date' is not unique".)
IsUniqueLabel(df, name) == Cardinality(ColumnPositions(df, name)) = 1

KeyPosition(df) == CHOOSE k \in DOMAIN df.columns : df.columns[k] = "Date"

\* The keys of a set of Date cells in ascending order.
SortedKeys(keys) ==
    CHOOSE f \in Orderings(keys) :
        \A i, j \in DOMAIN f : i < j => DtBefore(f[i][1], f[j][1])

\* The cells of a row without the key cell.
OtherCells(df, row) == SubsequenceAt(row.cells, DOMAIN df.columns \ {KeyPosition(df)})

\* The rows a key has in the outer join: every pairing of a left row and a
\* right row of that key, left rows first; a side without a row of the key
\* gives missing cells.
merged_rows_of(left, right, key) ==
    LET L == SelectSeq(left.rows, LAMBDA r : r.cells[KeyPosition(left)] = key)
        R == SelectSeq(right.rows, LAMBDA r : r.cells[KeyPosition(right)] = key)
        no_left == [k \in DOMAIN left.columns |->
                       IF k = KeyPosition(left) THEN key ELSE None]
        no_right == [k \in 1..(Len(right.columns) - 1) |-> None]
    IN  IF Len(L) = 0 THEN [j \in DOMAIN R |-> no_left \o OtherCells(right, R[j])]
        ELSE IF Len(R) = 0 THEN [i \in DOMAIN L |-> L[i].cells \o no_right]
        ELSE [n \in 1..(Len(L) * Len(R)) |->
                 L[((n - 1) \div Len(R)) + 1].cells
                     \o OtherCells(right, R[((n - 1) % Len(R)) + 1])]

\* Line 156: combined_df.merge(readings_df, on="Date", how="outer").  The
\* result has the left columns, then the right columns but Date; a label
\* that both sides have, other than Date, gets the suffix _x on the left and
\* _y on the right.  Keys come in ascending order and the index is new.
merge_outer_on_Date(left, right) ==
    IF ~IsUniqueLabel(left, "Date") \/ ~IsUniqueLabel(right, "Date")
    THEN Raised("ValueError")
    ELSE LET shared == (Range(left.columns) \cap Range(right.columns)) \ {"Date"}
             lcols == [k \in DOMAIN left.columns |->
                          IF left.columns[k] \in shared THEN left.columns[k] \o "_x"
                          ELSE left.columns[k]]
             rnames == SubsequenceAt(right.columns,
                                     DOMAIN right.columns \ {KeyPosition(right)})
             rcols == [k \in DOMAIN rnames |->
                          IF rnames[k] \in shared THEN rnames[k] \o "_y" ELSE rnames[k]]
             keys == { r.cells[KeyPosition(left)] : r \in Range(left.rows) }
                       \cup { r.cells[KeyPosition(right)] : r \in Range(right.rows) }
             order == SortedKeys(keys)
             cells == Flatten([i \in DOMAIN order |-> merged_rows_of(left, right, order[i])])
         IN  Returned([columns |-> lcols \o rcols,
                       rows |-> [i \in DOMAIN cells |->
                                    [label |-> i - 1, cells |-> cells[i]]]])

\* Line 171: combined_df.sort_values(by="Date", inplace=True), with the
\* default sort kind: rows of equal Date in any order.
sort_values_by_Date(df) ==
    IF ~IsUniqueLabel(df, "Date") THEN { Raised("ValueError") }
    ELSE LET k == KeyPosition(df)
             sorted(rows) == \A i, j \in DOMAIN rows :
                                i < j => ~DtBefore(rows[j].cells[k][1], rows[i].cells[k][1])
         IN  { Returned([df EXCEPT !.rows = [i \in DOMAIN df.rows |-> df.rows[p[i]]]]) :
                 p \in { q \in Orderings(DOMAIN df.rows) :
                           sorted([i \in DOMAIN df.rows |-> df.rows[q[i]]]) } }

\* Lines 173-185: what tabulate is given: the headers and the first rows.
printed_table(df) ==
    [headers |-> <<"Date">> \o SubsequenceAt(df.columns, DOMAIN df.columns \ {KeyPosition(df)}),
     rows |-> [i \in 1..Min(MAX_PRINT_ROWS, Len(df.rows)) |-> df.rows[i].cells]]


(***************************************************************************)
(* cli.py: _fetch_station_readings                                         *)
(*                                                                         *)
(* cli.py calls the client as get_station_readings(station_id,             *)
(* station_name, (start_date, end_date), measure); the client under src/   *)
(* has no station_name parameter.  The call is taken to run the method of  *)
(* src/api_client.py with the other three arguments.                       *)
(*                                                                         *)
(* While a station's readings are fetched, args and locals are those of    *)
(* get_station_readings and the frame of _fetch_station_readings waits in  *)
(* locals.cli.                                                             *)
(***************************************************************************)
MaxBatch == 2

\* utils.get_time_24hrs_ago: the clock of the run less one day.
Clock == { DateTime(2025, 3, 1, 9, 30, 0) }

\* What is typed at the two date prompts and at the measure prompt.
DatePromptInputs == {"", "01-03-2025", "02-03-2025", "2025-03-01"}
MeasurePromptInputs == {"", "flow", "rainfall"}

\* The batch: station ids with their names, the first one to MaxBatch of a
\* list.
BatchStations ==
    << <<"E2534", "Boston">>, <<"F1906", "Ripon">>, <<"L2208", "Selby">>, <<"1029TH", "Bourton">> >>
StationBatches == { SubSeq(BatchStations, 1, n) : n \in 1..Min(MaxBatch, Len(BatchStations)) }

\* The collections the service answers with while a batch is fetched: the
\* station is known or not; it has one active measure or two; a measure has
\* no readings, or two in reverse order.
BatchStationPayloads == { p \in StationPayloads : Len(p) <= 1 }
BatchMeasurePayloads ==
    { SubsequenceAt(AllMeasureRecords, {3}), SubsequenceAt(AllMeasureRecords, {1, 3}) }
BatchReadingPayloads ==
    { <<>>,
      << [dateTime |-> "2025-03-01T00:15:00Z", value |-> 2],
         [dateTime |-> "2025-03-01T00:00:00Z", value |-> 1] >>,
      << [dateTime |-> "2025-03-01T00:30:00Z", value |-> 3],
         [dateTime |-> "2025-03-01T00:15:00Z", value |-> 2] >> }

\* datetime.strptime accepts the text: the format's fields are digits of the
\* widths strptime_fields reads, the other characters are the format's own,
\* and nothing is left over.
RECURSIVE strptime_matches(_, _)
strptime_matches(s, format) ==
    IF format = "" THEN s = ""
    ELSE IF SubSeq(format, 1, 1) = "%"
         THEN LET w == IF SubSeq(format, 2, 2) = "Y" THEN 4 ELSE 2
              IN  /\ Len(s) >= w
                  /\ \A k \in 1..w : IndexIn("0123456789", SubSeq(s, k, k)) # 0
                  /\ strptime_matches(SubSeq(s, w + 1, Len(s)), SubSeq(format, 3, Len(format)))
    ELSE /\ Len(s) >= 1
         /\ SubSeq(s, 1, 1) = SubSeq(format, 1, 1)
         /\ strptime_matches(DropFirst(s), DropFirst(format))

\* utils.str_to_dt with its failure: ValueError for text that does not match.
str_to_dt_or_raise(dt_str, format) ==
    IF strptime_matches(dt_str, format) THEN Returned(str_to_dt(dt_str, format))
    ELSE Raised("ValueError")


\* The first components of a sequence of pairs.
Firsts(pairs) == [i \in DOMAIN pairs |-> pairs[i][1]]

\* A variant of the except clause that lets every exception through.
caught_by_nothing(e) == FALSE

\* except Exception: every exception but those that only derive from
\* BaseException.
caught_by_except_Exception(e) ==
    e.exc \notin {"SystemExit", "KeyboardInterrupt", "GeneratorExit"}

\* The frame of _fetch_station_readings at its first line.
BatchFrame(call) ==
    [call |-> call, date_inputs |-> None, start_date |-> None, end_date |-> None,
     measure |-> None, i |-> 1, combined_df |-> None,
     combined_measurement_info |-> <<>>, fetched |-> <<>>, out |-> <<>>]

\* Lines 90-96, as the handlers call it: with both flags set or both clear.
EnterBatch(call) ==
    /\ args' = call
    /\ locals' = [cli |-> BatchFrame(call)]
    /\ pc' = "cli:dates"
    /\ http' = <<>>
    /\ ret' = NoRet

fetch_station_readings_Call ==
    /\ pc = "idle"
    /\ \E b \in StationBatches, flag \in BOOLEAN :
         EnterBatch([op |-> "_fetch_station_readings",
                     station_ids |-> Firsts(b), station_names |-> Seconds(b),
                     prev_24_hrs_only |-> flag, all_measures |-> flag])

\* Lines 116-121: the window for what was typed at the two prompts, or the
\* exception of a text that does not parse.  The end date is parsed whenever
\* the START text is not blank.
prompted_window(start_date_str, end_date_str, now_less_a_day) ==
    LET start == IF start_date_str # "" THEN str_to_dt_or_raise(start_date_str, "%d-%m-%Y")
                 ELSE Returned(now_less_a_day)
        end == IF start_date_str # "" THEN str_to_dt_or_raise(end_date_str, "%d-%m-%Y")
               ELSE Returned(None)
    IN  IF start.kind = "raise" THEN start
        ELSE IF end.kind = "raise" THEN end
        ELSE Returned(<<start.value,
                        IF start_date_str # "" THEN Some(end.value) ELSE None>>)

\* Lines 109-124, with the texts that may be typed at the date prompts.
cli_dates_in(date_inputs) ==
    /\ pc = "cli:dates"
    /\ \E now_less_a_day \in Clock :
         IF args.prev_24_hrs_only
         THEN /\ locals' = [locals EXCEPT !.cli.start_date = Some(now_less_a_day)]
              /\ pc' = "cli:measure"
              /\ ret' = ret
         ELSE \E start_date_str, end_date_str \in date_inputs :
                LET w == prompted_window(start_date_str, end_date_str, now_less_a_day)
                IN  IF w.kind = "raise"
                    THEN /\ locals' = [locals EXCEPT !.cli.date_inputs =
                                          Some(<<start_date_str, end_date_str>>)]
                         /\ pc' = "cli:return"
                         /\ ret' = w
                    ELSE /\ locals' = [locals EXCEPT
                                !.cli.date_inputs = Some(<<start_date_str, end_date_str>>),
                                !.cli.start_date = Some(w.value[1]),
                                !.cli.end_date = w.value[2]]
                         /\ pc' = "cli:measure"
                         /\ ret' = ret
    /\ UNCHANGED <<args, http>>

cli_dates == cli_dates_in(DatePromptInputs)

\* Lines 126-131, and line 139: measure or None.
cli_measure ==
    /\ pc = "cli:measure"
    /\ IF args.all_measures
       THEN locals' = locals
       ELSE \E measure \in MeasurePromptInputs :
              locals' = [locals EXCEPT !.cli.measure =
                            IF measure = "" THEN None ELSE Some(measure)]
    /\ pc' = "cli:loop"
    /\ UNCHANGED <<args, http, ret>>

\* The arguments get_station_readings runs with for the call of line 138.
readings_call_args(station_id, station_name, start_end_date, measure) ==
    [op |-> "get_station_readings", station_id |-> station_id,
     start_end_date |-> start_end_date, measure_name |-> measure]

\* Lines 136-140: the next station's call.
cli_call ==
    /\ pc = "cli:loop"
    /\ locals.cli.i <= Len(locals.cli.call.station_ids)
    /\ LET f == locals.cli
       IN  args' = readings_call_args(f.call.station_ids[f.i], f.call.station_names[f.i],
                                      <<f.start_date[1], f.end_date>>, f.measure)
    /\ locals' = [cli |-> locals.cli] @@ ReadingLocals
    /\ pc' = "gsr:check_is_valid_measure"
    /\ http' = <<>>
    /\ ret' = NoRet


\* What the loop body prints for a station.
PrintedError(station_id, station_name, e) ==
    [kind |-> "error", station_id |-> station_id, station_name |-> station_name, e |-> e]
PrintedNoReadings(station_id) == [kind |-> "no readings", station_id |-> station_id]

\* Lines 142-163 for a station whose call returned readings_df and
\* measurement_info: the frame's new combined_df, combined_measurement_info
\* and out, and the exception the lines end in, if any.
combine_station(f, station_id, station_name, readings_df, info) ==
    LET keep == [combined_df |-> f.combined_df,
                 combined_measurement_info |-> f.combined_measurement_info,
                 out |-> f.out, raised |-> None]
    IN  IF df_empty(readings_df)
        THEN [keep EXCEPT !.out = Append(@, PrintedNoReadings(station_id))]
        ELSE LET mapping == prefixed_columns(station_name, readings_df, info)
             IN  IF mapping.kind = "raise" THEN [keep EXCEPT !.raised = Some(mapping)]
                 ELSE LET renamed == rename(readings_df, mapping.value)
                          merged == IF IsNone(f.combined_df) THEN Returned(renamed)
                                    ELSE merge_outer_on_Date(f.combined_df[1], renamed)
                          new_info == prefixed_info(mapping.value, info)
                      IN  IF merged.kind = "raise" THEN [keep EXCEPT !.raised = Some(merged)]
                          ELSE IF new_info.kind = "raise"
                               THEN [keep EXCEPT !.combined_df = Some(merged.value),
                                                 !.raised = Some(new_info)]
                          ELSE [keep EXCEPT
                                   !.combined_df = Some(merged.value),
                                   !.combined_measurement_info = new_info.value @@ @]

\* Lines 137-166: the loop body after the call of line 138 has ended.  An
\* exception of the call or of the lines after it is printed when the except
\* clause catches it, and the loop goes on; otherwise it leaves the function.
cli_result ==
    /\ pc = "done"
    /\ "cli" \in DOMAIN locals
    /\ LET f == locals.cli
           station_id == f.call.station_ids[f.i]
           station_name == f.call.station_names[f.i]
           c == IF ret.kind = "raise"
                THEN [combined_df |-> f.combined_df,
                      combined_measurement_info |-> f.combined_measurement_info,
                      out |-> f.out, raised |-> Some(ret)]
                ELSE combine_station(f, station_id, station_name, ret.value[1], ret.value[2])
           caught == ~IsNone(c.raised) /\ caught_by_except_Exception(c.raised[1])
           g == [f EXCEPT !.i = @ + 1,
                          !.combined_df = c.combined_df,
                          !.combined_measurement_info = c.combined_measurement_info,
                          !.fetched = Append(@, [station_id |-> station_id,
                                                 station_name |-> station_name,
                                                 ret |-> ret, data |-> locals.data]),
                          !.out = IF caught
                                  THEN Append(c.out, PrintedError(station_id, station_name,
                                                                  c.raised[1]))
                                  ELSE c.out]
       IN  /\ locals' = [cli |-> g]
           /\ IF ~IsNone(c.raised) /\ ~caught
              THEN pc' = "cli:return" /\ ret' = c.raised[1]
              ELSE pc' = "cli:loop" /\ ret' = NoRet
    /\ args' = locals.cli.call
    /\ http' = <<>>

\* Lines 168-187, after the loop.
cli_print ==
    /\ pc = "cli:loop"
    /\ locals.cli.i > Len(locals.cli.call.station_ids)
    /\ LET f == locals.cli
       IN  IF IsNone(f.combined_df) \/ df_empty(f.combined_df[1])
           THEN /\ locals' = [locals EXCEPT !.cli.out = Append(@, [kind |-> "no data"])]
                /\ pc' = "cli:return"
                /\ ret' = Returned(None)
           ELSE \E sorted \in sort_values_by_Date(f.combined_df[1]) :
                  IF sorted.kind = "raise"
                  THEN /\ locals' = locals
                       /\ pc' = "cli:return"
                       /\ ret' = sorted
                  ELSE /\ locals' = [locals EXCEPT
                              !.cli.combined_df = Some(sorted.value),
                              !.cli.out = @ \o << [kind |-> "table",
                                                   table |-> printed_table(sorted.value)],
                                                  [kind |-> "info",
                                                   info |-> f.combined_measurement_info] >>]
                       /\ pc' = "cli:plot"
                       /\ ret' = ret
    /\ UNCHANGED <<args, http>>

\* plotting.plot_time_series as cli.py calls it: the measurement info of
\* get_station_readings has no "measurement_name", which the y label reads.
plot_time_series(df, info) == Raised("KeyError")

\* Lines 189-193.
cli_plot ==
    /\ pc = "cli:plot"
    /\ \E answer \in {"yes", "no"} :
         ret' = IF answer \in {"yes", "y"}
                THEN plot_time_series(locals.cli.combined_df[1],
                                      locals.cli.combined_measurement_info)
                ELSE Returned(None)
    /\ pc' = "cli:return"
    /\ UNCHANGED <<args, http, locals>>

\* _fetch_station_readings has ended, in ret.
cli_Return ==
    /\ pc = "cli:return"
    /\ pc' = "idle"
    /\ args' = NoArgs
    /\ http' = <<>>
    /\ locals' = NoLocals
    /\ ret' = NoRet

\* A batch whose date prompts, when shown, are left blank.
NextBatch ==
    \/ fetch_station_readings_Call
    \/ cli_dates_in({""})
    \/ cli_measure
    \/ cli_call
    \/ gsr_check_is_valid_measure
    \/ gsr_check_valid_station_id_in(BatchStationPayloads)
    \/ gsr_check_station_measure_in(BatchMeasurePayloads)
    \/ gsr_get_station_measures_in(BatchMeasurePayloads)
    \/ gsr_fetch_in(BatchReadingPayloads)
    \/ gsr_concat
    \/ cli_result
    \/ cli_print
    \/ cli_plot
    \/ cli_Return

SpecBatch == Init /\ [][NextBatch]_vars


(***************************************************************************)
(* Properties of _fetch_station_readings                                   *)
(***************************************************************************)
BatchEnded == pc = "cli:return" /\ args.op = "_fetch_station_readings"

\* The stations of the batch whose call of get_station_readings returned.
Succeeded == { j \in DOMAIN locals.cli.fetched : locals.cli.fetched[j].ret.kind = "return" }
Failed == { j \in DOMAIN locals.cli.fetched : locals.cli.fetched[j].ret.kind = "raise" }

\* The tables that were printed.
PrintedTables == { o.table : o \in { e \in Range(locals.cli.out) : e.kind = "table" } }

\* The data columns a station has in a printed table: their headers begin
\* with the station's name and a line break.
ColumnsOf(table, station_name) ==
    { c \in 2..Len(table.headers) : startswith(table.headers[c], station_name \o "\n") }

\* A printed table shows a reading of a station: a row of the reading's
\* timestamp has its value in a column of the station.
ReadingShown(table, station_name, e) ==
    \E r \in Range(table.rows), c \in ColumnsOf(table, station_name) :
        /\ r[1] = Some(str_to_dt(e.dateTime, DATETIME_FORMAT))
        /\ r[c] = Some(e.value)

ReportedTimes(j) ==
    UNION { Range(WireDates(locals.cli.fetched[j].data[k])) :
              k \in DOMAIN locals.cli.fetched[j].data }

BatchOuterJoinExample ==
    /\ BatchEnded
    /\ Cardinality(Succeeded) = 2
    /\ \E t \in PrintedTables :
         /\ Len(t.headers) = 3
         /\ Len(t.rows) = 3
         /\ t.rows[1][3] = None
         /\ t.rows[3][2] = None


(***************************************************************************)
(* The date prompts of _fetch_station_readings                             *)
(***************************************************************************)
\* A station with one flow measure and two readings, or none.
PromptStationPayloads == { p \in BatchStationPayloads : Len(p) = 1 }
PromptMeasurePayloads == { p \in BatchMeasurePayloads : Len(p) = 1 }
PromptReadingPayloads == { p \in BatchReadingPayloads : Len(p) = 0 \/ p[1].value = 2 }

\* A batch with every text of DatePromptInputs at its date prompts.
NextPrompts ==
    \/ fetch_station_readings_Call
    \/ cli_dates
    \/ cli_measure
    \/ cli_call
    \/ gsr_check_is_valid_measure
    \/ gsr_check_valid_station_id_in(PromptStationPayloads)
    \/ gsr_check_station_measure_in(PromptMeasurePayloads)
    \/ gsr_get_station_measures_in(PromptMeasurePayloads)
    \/ gsr_fetch_in(PromptReadingPayloads)
    \/ gsr_concat
    \/ cli_result
    \/ cli_print
    \/ cli_plot
    \/ cli_Return

SpecPrompts == Init /\ [][NextPrompts]_vars

\* The date prompts were shown and answered.
DatesPrompted == "cli" \in DOMAIN locals /\ locals.cli.date_inputs # None

\* A text that a user following the prompt may type: blank or DD-MM-YYYY.
PromptedDateText(t) == t = "" \/ strptime_matches(t, "%d-%m-%Y")

\* C19: after the date prompts were answered with blank or DD-MM-YYYY texts,
\* the window is set and its start is never absent: a start with a blank end
\* gives (start, absent), a start and an end give (start, end), and two blanks
\* give (24 hours ago, absent).
C19_DatePromptsToWindow ==
    DatesPrompted =>
        LET f == locals.cli
            start_date_str == f.date_inputs[1][1]
            end_date_str == f.date_inputs[1][2]
        IN  (PromptedDateText(start_date_str) /\ PromptedDateText(end_date_str)) =>
              /\ f.start_date # None
              /\ (start_date_str # "" /\ end_date_str = "") =>
                    /\ f.start_date = Some(str_to_dt(start_date_str, "%d-%m-%Y"))
                    /\ f.end_date = None
              /\ (start_date_str # "" /\ end_date_str # "") =>
                    /\ f.start_date = Some(str_to_dt(start_date_str, "%d-%m-%Y"))
                    /\ f.end_date = Some(str_to_dt(end_date_str, "%d-%m-%Y"))
              /\ (start_date_str = "" /\ end_date_str = "") =>
                    /\ f.start_date \in { Some(now_less_a_day) : now_less_a_day \in Clock }
                    /\ f.end_date = None

\* The same with the case of a start and a blank end left out.
DatePromptsToWindowButBlankEnd ==
    DatesPrompted =>
        LET f == locals.cli
            start_date_str == f.date_inputs[1][1]
            end_date_str == f.date_inputs[1][2]
        IN  (/\ PromptedDateText(start_date_str) /\ PromptedDateText(end_date_str)
             /\ ~(start_date_str # "" /\ end_date_str = "")) =>
              /\ f.start_date # None
              /\ (start_date_str # "" /\ end_date_str # "") =>
                    /\ f.start_date = Some(str_to_dt(start_date_str, "%d-%m-%Y"))
                    /\ f.end_date = Some(str_to_dt(end_date_str, "%d-%m-%Y"))
              /\ (start_date_str = "" /\ end_date_str = "") =>
                    /\ f.start_date \in { Some(now_less_a_day) : now_less_a_day \in Clock }
                    /\ f.end_date = None


(***************************************************************************)
(* main.py: the menu loop, and the handlers of cli.py it dispatches to     *)
(*                                                                         *)
(* In this part pc = "idle" is main waiting at the prompt of line 61; ret  *)
(* then holds what the last choice printed.                                *)
(***************************************************************************)
\* Lines 28-45: the function and the description of every key.
CHOICE_MAPPINGS ==
    ("1" :> [func |-> "search_stations_by_name",
             description |-> "Search for stations by name"]) @@
    ("2" :> [func |-> "fetch_station_readings_prev_24_hrs_all_measures",
             description |-> "Fetch station(s) readings over past 24 hrs"]) @@
    ("3" :> [func |-> "fetch_station_readings",
             description |-> "Fetch station readings for provided date range and measures of interest"]) @@
    ("4" :> [func |-> "fetch_station_measures",
             description |-> "List measures that are taken given station(s)"]) @@
    ("5" :> [func |-> "fetch_station_info",
             description |-> "List infomation for chosen station(s)"]) @@
    ("6" :> [func |-> "display_acronyms", description |-> "List acronym defitions"]) @@
    ("7" :> [func |-> "display_measure_types",
             description |-> "List all valid types of measures"]) @@
    ("8" :> [func |-> "lambda x: exit", description |-> "Exit"])

\* What may be typed at the prompt: the keys, and texts that are no key.
MenuInputs == DOMAIN CHOICE_MAPPINGS \cup {"9", "0", "", "exit"}

\* What a choice has printed, in order.
Shown(out) == [kind |-> "shown", out |-> out]

\* Line 66.
InvalidChoice(max_choice) == [kind |-> "invalid choice", max_choice |-> max_choice]

\* The function called at line 69 has returned: the loop prompts again.
BackToPrompt(out) ==
    /\ pc' = "idle"
    /\ args' = NoArgs
    /\ http' = <<>>
    /\ locals' = NoLocals
    /\ ret' = Shown(out)

\* An exception leaves main: the process ends with it.
Terminate(e) ==
    /\ pc' = "main:terminated"
    /\ args' = NoArgs
    /\ http' = <<>>
    /\ locals' = NoLocals
    /\ ret' = e

\* The end of a handler whose body is try ... except Exception as e:
\* print(f"Error: {e}"), after the body printed out and raised what is given.
HandlerEnds(out, raised) ==
    IF IsNone(raised) THEN BackToPrompt(out)
    ELSE IF caught_by_except_Exception(raised[1])
         THEN BackToPrompt(Append(out, [kind |-> "error", e |-> raised[1]]))
    ELSE Terminate(raised[1])

\* Lines 56-61.
main_input ==
    /\ pc = "idle"
    /\ \E choice \in MenuInputs : args' = [op |-> "main", choice |-> choice]
    /\ pc' = "main:choice"
    /\ http' = <<>>
    /\ locals' = NoLocals
    /\ ret' = NoRet

\* The function of the choice, once line 63 found one.
ChosenFunc(func) ==
    /\ pc = "main:choice"
    /\ args.choice \in DOMAIN CHOICE_MAPPINGS
    /\ CHOICE_MAPPINGS[args.choice].func = func

\* Lines 63-66: a text that is no key.
main_invalid_choice ==
    /\ pc = "main:choice"
    /\ args.choice \notin DOMAIN CHOICE_MAPPINGS
    /\ BackToPrompt(<< InvalidChoice(Cardinality(DOMAIN CHOICE_MAPPINGS) + 1) >>)

\* Line 69 for key "8": the lambda returns the builtin exit without calling
\* it, and main drops the value.
main_exit ==
    /\ ChosenFunc("lambda x: exit")
    /\ BackToPrompt(<<>>)

\* Line 69 for keys "6" and "7": the two tables of cli.py lines 26-45.
main_display ==
    /\ \/ ChosenFunc("display_acronyms")
       \/ ChosenFunc("display_measure_types")
    /\ BackToPrompt(<< [kind |-> "text", of |-> CHOICE_MAPPINGS[args.choice].func] >>)

\* search_stations_by_name, lines 337-342: the typed name, capitalised, goes
\* to station_name_to_ids.
search_stations_by_name_Call ==
    /\ ChosenFunc("search_stations_by_name")
    /\ \E n \in StationNames :
         args' = [op |-> "station_name_to_ids", station_name |-> n]
    /\ pc' = "station_name_to_ids:get"
    /\ http' = <<>>
    /\ locals' = [menu |-> [handler |-> "search_stations_by_name"]]
    /\ ret' = NoRet

\* Lines 342-355.
search_stations_by_name_Return ==
    /\ pc = "done"
    /\ args.op = "station_name_to_ids"
    /\ "menu" \in DOMAIN locals
    /\ IF ret.kind = "raise" THEN HandlerEnds(<<>>, Some(ret))
       ELSE HandlerEnds(<< [kind |-> "matches", station_names |-> ret.value[1],
                            station_ids |-> ret.value[2]] >>, None)

\* What preprocess_station_info (cli.py lines 251-333) ends in: the ids and
\* names of a batch, the ValueError of line 333 or of int() at line 320, the
\* IndexError of lines 64 and 325, or an exception of a request made by the
\* client's get_all_station_ids, get_station_name_from_id or
\* station_name_to_ids.
preprocess_station_info ==
    { Returned(b) : b \in StationBatches }
        \cup { Raised("ValueError"), Raised("IndexError"), Raised("ConnectionError") }

\* fetch_station_readings_prev_24_hrs_all_measures and fetch_station_readings,
\* lines 362-396, up to the first line of _fetch_station_readings.
fetch_station_readings_handler_Call ==
    /\ \/ ChosenFunc("fetch_station_readings_prev_24_hrs_all_measures")
       \/ ChosenFunc("fetch_station_readings")
    /\ \E p \in preprocess_station_info :
         IF p.kind = "raise" THEN HandlerEnds(<<>>, Some(p))
         ELSE LET flag == CHOICE_MAPPINGS[args.choice].func
                              = "fetch_station_readings_prev_24_hrs_all_measures"
              IN  EnterBatch([op |-> "_fetch_station_readings",
                              station_ids |-> Firsts(p.value),
                              station_names |-> Seconds(p.value),
                              prev_24_hrs_only |-> flag, all_measures |-> flag])

\* The except clauses of lines 375-376 and 392-393, and the return to main.
fetch_station_readings_handler_Return ==
    /\ pc = "cli:return"
    /\ HandlerEnds(locals.cli.out, IF ret.kind = "raise" THEN Some(ret) ELSE None)

\* fetch_station_measures and fetch_station_info, lines 399-419, up to the
\* first station of the comprehension.
station_loop_Call ==
    /\ \/ ChosenFunc("fetch_station_measures")
       \/ ChosenFunc("fetch_station_info")
    /\ \E p \in preprocess_station_info :
         IF p.kind = "raise" THEN HandlerEnds(<<>>, Some(p))
         ELSE /\ locals' = [menu |-> [handler |-> CHOICE_MAPPINGS[args.choice].func,
                                      station_ids |-> Firsts(p.value),
                                      station_names |-> Seconds(p.value),
                                      i |-> 1, out |-> <<>>]]
              /\ pc' = "menu:loop"
              /\ http' = <<>>
              /\ ret' = NoRet
              /\ args' = args

\* The station loop is at a station of the given handler.
AtStationOf(handler) ==
    /\ pc = "menu:loop"
    /\ locals.menu.handler = handler
    /\ locals.menu.i <= Len(locals.menu.station_ids)

\* The body of an inner try ... except Exception (lines 76-83, 204-218) has
\* ended for a station: what it printed or raised goes to the output and the
\* comprehension moves on; an exception the clause does not catch leaves the
\* handler through its own except clause.
StationEnds(printed, raised) ==
    IF ~IsNone(raised) /\ ~caught_by_except_Exception(raised[1])
    THEN HandlerEnds(locals.menu.out, raised)
    ELSE /\ locals' = [locals EXCEPT
                !.menu.i = @ + 1,
                !.menu.out = IF IsNone(raised) THEN Append(@, printed)
                             ELSE Append(@, [kind |-> "error", e |-> raised[1]])]
         /\ pc' = "menu:loop"
         /\ args' = [op |-> "main", choice |-> "station loop"]
         /\ http' = <<>>
         /\ ret' = NoRet

\* _print_station_measures, line 77: the call of get_station_measures.
print_station_measures_Call ==
    /\ AtStationOf("fetch_station_measures")
    /\ args' = [op |-> "get_station_measures",
                station_id |-> locals.menu.station_ids[locals.menu.i]]
    /\ pc' = "get_station_measures:get"
    /\ http' = <<>>
    /\ ret' = NoRet
    /\ locals' = locals

\* _print_station_measures, lines 77-83.
print_station_measures_Return ==
    /\ pc = "done"
    /\ args.op = "get_station_measures"
    /\ "menu" \in DOMAIN locals
    /\ IF ret.kind = "raise" THEN StationEnds(NoRet, Some(ret))
       ELSE StationEnds([kind |-> "measures", measures |-> ret.value[1],
                         units |-> ret.value[3], qualifiers |-> ret.value[4]], None)

\* api_client.get_station_info, lines 96-98, and data[0] of cli.py line 209:
\* IndexError for an empty list.
first_station_info(fetched) ==
    IF fetched.kind = "raise" THEN fetched
    ELSE IF Len(fetched.value) = 0 THEN Raised("IndexError")
    ELSE Returned(fetched.value[1])

\* _print_station_info, lines 200-218.
print_station_info ==
    /\ AtStationOf("fetch_station_info")
    /\ \E resp \in Responses(MeasurePayloads) :
         LET info == first_station_info(api_outcome(resp))
         IN  IF info.kind = "raise" THEN StationEnds(NoRet, Some(info))
             ELSE StationEnds([kind |-> "info", info |-> info.value], None)

\* The comprehension of lines 402-405 and 417 is through: the handler returns.
station_loop_Return ==
    /\ pc = "menu:loop"
    /\ locals.menu.i > Len(locals.menu.station_ids)
    /\ HandlerEnds(locals.menu.out, None)

NextMenu ==
    \/ main_input
    \/ main_invalid_choice
    \/ main_exit
    \/ main_display
    \/ search_stations_by_name_Call
    \/ station_name_to_ids_Get
    \/ search_stations_by_name_Return
    \/ fetch_station_readings_handler_Call
    \/ cli_dates
    \/ cli_measure
    \/ cli_call
    \/ gsr_check_is_valid_measure
    \/ gsr_check_valid_station_id_in(PromptStationPayloads)
    \/ gsr_check_station_measure_in(PromptMeasurePayloads)
    \/ gsr_get_station_measures_in(PromptMeasurePayloads)
    \/ gsr_fetch_in(PromptReadingPayloads)
    \/ gsr_concat
    \/ cli_result
    \/ cli_print
    \/ cli_plot
    \/ fetch_station_readings_handler_Return
    \/ station_loop_Call
    \/ print_station_measures_Call
    \/ get_station_measures_Get
    \/ print_station_measures_Return
    \/ print_station_info
    \/ station_loop_Return

SpecMenu == Init /\ [][NextMenu]_vars

\* The interpreter keeps running the program, and the user answers prompts.
SpecMenuLive == SpecMenu /\ WF_vars(NextMenu)


(***************************************************************************)
(* Properties of the menu loop                                             *)
(***************************************************************************)
AtPrompt == pc = "idle"

\* A call of the client made for a menu command has ended in an exception.
CoreCallRaised == pc = "done" /\ ret.kind = "raise"

\* What the running command has printed so far, or the last command printed.
OutputOf(l, r) ==
    IF "cli" \in DOMAIN l THEN l.cli.out
    ELSE IF "menu" \in DOMAIN l /\ "out" \in DOMAIN l.menu THEN l.menu.out
    ELSE IF r.kind = "shown" THEN r.out
    ELSE <<>>

ErrorLines(out) == { k \in DOMAIN out : out[k].kind = "error" }

PromptAfterValidationError ==
    /\ AtPrompt
    /\ ret.kind = "shown"
    /\ \E k \in ErrorLines(ret.out) : ret.out[k].e.exc = "AssertionError"

\* Main is back at its prompt after a response without the expected keys was
\* printed as an error.
PromptAfterMalformedResponse ==
    /\ AtPrompt
    /\ ret.kind = "shown"
    /\ \E k \in ErrorLines(ret.out) : ret.out[k].e.exc \in {"KeyError", "JSONDecodeError"}

\* C20: after choice 8 no prompt follows; a text that is no key of the menu
\* prints the invalid-choice message, runs no command and leads back to the
\* prompt.
C20_ExitEndsLoop ==
    [][/\ (pc = "main:choice" /\ args.choice = "8") => ~AtPrompt'
       /\ (pc = "main:choice" /\ args.choice \notin DOMAIN CHOICE_MAPPINGS) =>
             /\ AtPrompt'
             /\ http' = <<>>
             /\ \E max_choice \in 1..10 : ret' = Shown(<< InvalidChoice(max_choice) >>)]_vars

\* The part of C20 on texts that are no key.
InvalidChoicePromptsAgain ==
    [][(pc = "main:choice" /\ args.choice \notin DOMAIN CHOICE_MAPPINGS) =>
          /\ AtPrompt'
          /\ http' = <<>>
          /\ \E max_choice \in 1..10 : ret' = Shown(<< InvalidChoice(max_choice) >>)]_vars

====
